---- MODULE Spec2Model ----
(***************************************************************************)
(* Update logic of d3rlpy's DQNImpl / DoubleDQNImpl (dqn_impl.py) and      *)
(* SACImpl / DiscreteSACImpl (sac_impl.py).                                *)
(*                                                                         *)
(* Networks are tabular: a Q-function ensemble is a table                  *)
(* member -> observation -> action -> value, a categorical policy is a     *)
(* table observation -> action -> probability mass in units of 1/Denom.   *)
(* Real numbers are fixed point: logarithms and exponentials are in units  *)
(* of 1/10, read from tables.  A gradient is the exact derivative of the   *)
(* loss up to a positive constant factor; the optimizer moves every        *)
(* parameter of its group one grid unit against the sign of its gradient.  *)
(* In an action, \E x \in {e} : ... names the value of e (a local variable *)
(* of the handler).                                                        *)
(***************************************************************************)
EXTENDS Integers, Sequences, FiniteSets, TLC

\* ------------------------------------------------------------------ bounds
\* Ensemble members, largest Q-value of the grid, entry-point calls explored,
\* and the resolution of the probability grid (multiples of 1/Denom).
NumMembers == 2
MaxQ == 1
MaxCalls == 2
Denom == 4

\* --------------------------------------------------- program configuration
\* Number of distinct observations (observation_shape).
NumObs == 2
\* action_size and gamma (= GammaNum / GammaDen) are constructor arguments.
ActionSize == 2
GammaNum == 1
GammaDen == 2
\* Number of transitions in a mini-batch, and the largest batch.intervals
\* (single-step transitions).
BatchSize == 1
MaxInterval == 1

Obs == 1..NumObs
Members == 1..NumMembers
Actions == 1..ActionSize
QVals == 0..MaxQ
LogTemps == -1..1

\* ------------------------------------------------------------- arithmetic
Sign(x) == IF x > 0 THEN 1 ELSE IF x < 0 THEN -1 ELSE 0

RECURSIVE Pow(_, _)
Pow(b, n) == IF n = 0 THEN 1 ELSE b * Pow(b, n - 1)

RECURSIVE SumSeq(_)
SumSeq(s) == IF s = <<>> THEN 0 ELSE Head(s) + SumSeq(Tail(s))

RECURSIVE MinSeq(_)
MinSeq(s) ==
  IF Len(s) = 1 THEN s[1]
  ELSE LET r == MinSeq(Tail(s)) IN IF s[1] <= r THEN s[1] ELSE r

\* torch.Tensor.argmax(dim=1) of one row: the index of the first maximal value.
ArgMax(row) ==
  CHOOSE a \in 1..Len(row) :
    /\ \A c \in 1..Len(row) : row[c] <= row[a]
    /\ \A c \in 1..(a - 1) : row[c] < row[a]

\* math.log(n) and the log of a probability k/Denom, in units of 1/10.
LnTable == <<0, 7, 11, 14, 16, 18, 19, 21>>
Ln(n) == LnTable[n]
LogProb(k) == Ln(k) - Ln(Denom)

\* exp(log_temp) in units of 1/10.
Exp(lt) == CASE lt = -1 -> 4 [] lt = 0 -> 10 [] lt = 1 -> 27

\* ------------------------------------------------------------------ state
VARIABLES
  algo,        \* which implementation class the object is
  pc,          \* "new" before __init__ has run, "ready" after
  q_funcs,     \* live Q-function ensemble parameters
  targ_q_funcs,\* target Q-function ensemble parameters
  policy,      \* categorical policy parameters (DiscreteSAC)
  log_temp,    \* log-temperature parameter (SAC, DiscreteSAC)
  grad,        \* the .grad buffers of q_funcs, policy and log_temp
  q_training,  \* training-mode flag of the q_funcs modules
  last,        \* name of the last completed entry point
  ret,         \* what the last completed entry point returned
  arg,         \* the argument the last completed entry point was given
  calls,       \* number of entry-point calls made so far
  t_in,        \* the dist and target a target computation is given
  t_out        \* the tensor it returned

vars == <<algo, pc, q_funcs, targ_q_funcs, policy, log_temp, grad,
          q_training, last, ret, arg, calls, t_in, t_out>>

Algos == {"DQN", "DoubleDQN", "DiscreteSAC", "SAC"}

ZeroQ == [m \in Members |-> [o \in Obs |-> [a \in Actions |-> 0]]]
ZeroPolicy == [o \in Obs |-> [a \in Actions |-> 0]]
NoGrad == [q |-> ZeroQ, policy |-> ZeroPolicy, log_temp |-> 0]
NoRet == [loss |-> 0, temp |-> 0, out |-> <<>>]
NoTensor == [shape |-> <<>>, at |-> <<>>]
NoInput == [dists |-> <<>>, lt |-> 0, target |-> NoTensor]

\* The distributions over the actions whose probabilities are on the grid.
GridDists == {d \in [Actions -> 1..(Denom - 1)] : SumSeq(d) = Denom}

\* The rewards of the transitions: none, or the largest Q-value of the grid.
Rewards == {0, MaxQ}

\* A mini-batch: a sequence of transitions.
Transitions ==
  [obs : Obs, act : Actions, rew : Rewards, next : Obs,
   term : {0, 1}, intv : 1..MaxInterval]
Batches == [1..BatchSize -> Transitions]
ObsBatches == [1..BatchSize -> Obs]

\* ---------------------------------------------------------------- tensors
\* A tensor is its shape and its entries, indexed by tuples.
Indices(shape) ==
  CASE Len(shape) = 1 -> {<<i>> : i \in 1..shape[1]}
    [] Len(shape) = 2 -> {<<i, j>> : i \in 1..shape[1], j \in 1..shape[2]}
    [] Len(shape) = 3 ->
         {<<i, j, k>> : i \in 1..shape[1], j \in 1..shape[2],
                        k \in 1..shape[3]}

\* torch.Tensor.dim()
Dim(t) == Len(t.shape)

\* A (rows, columns) tensor from a sequence of rows.
FromRows(rows) ==
  [shape |-> <<Len(rows), Len(rows[1])>>,
   at |-> [idx \in Indices(<<Len(rows), Len(rows[1])>>) |->
             rows[idx[1]][idx[2]]]]

\* The rows of a rank-2 tensor.
Rows(t) ==
  [i \in 1..t.shape[1] |-> [j \in 1..t.shape[2] |-> t.at[<<i, j>>]]]

\* Broadcasting of two tensors of equal rank: an axis of size 1 is repeated.
BcastShape(s1, s2) ==
  [k \in 1..Len(s1) |-> IF s1[k] >= s2[k] THEN s1[k] ELSE s2[k]]
Clip(idx, shape) ==
  [k \in 1..Len(shape) |-> IF shape[k] = 1 THEN 1 ELSE idx[k]]

\* x * y, element-wise with broadcasting.
Mul(x, y) ==
  [shape |-> BcastShape(x.shape, y.shape),
   at |-> [idx \in Indices(BcastShape(x.shape, y.shape)) |->
             x.at[Clip(idx, x.shape)] * y.at[Clip(idx, y.shape)]]]

\* x - y, element-wise with broadcasting; x is in whole units and y in
\* units of 1/100, the result is in units of 1/100.
Sub(x, y) ==
  [shape |-> BcastShape(x.shape, y.shape),
   at |-> [idx \in Indices(BcastShape(x.shape, y.shape)) |->
             100 * x.at[Clip(idx, x.shape)] - y.at[Clip(idx, y.shape)]]]

\* c * x for a scalar c.
Scale(c, x) ==
  [shape |-> x.shape, at |-> [idx \in Indices(x.shape) |-> c * x.at[idx]]]

\* torch.Tensor.unsqueeze(-1): a trailing axis of size 1.
Unsqueeze(t) ==
  [shape |-> Append(t.shape, 1),
   at |-> [idx \in Indices(Append(t.shape, 1)) |->
             t.at[SubSeq(idx, 1, Len(t.shape))]]]

\* torch.Tensor.sum(dim=1, keepdim=keepdims): the second axis is summed; it
\* stays as an axis of size 1 when keepdims, and is dropped otherwise.
SumDim1(t, keepdims) ==
  LET shape == IF keepdims
               THEN [k \in 1..Len(t.shape) |->
                       IF k = 2 THEN 1 ELSE t.shape[k]]
               ELSE <<t.shape[1]>> \o SubSeq(t.shape, 3, Len(t.shape))
      Src(idx, a) == IF keepdims THEN [idx EXCEPT ![2] = a]
                     ELSE <<idx[1], a>> \o SubSeq(idx, 2, Len(idx))
  IN [shape |-> shape,
      at |-> [idx \in Indices(shape) |->
                SumSeq([a \in 1..t.shape[2] |-> t.at[Src(idx, a)]])]]

\* ------------------------------------------------ external collaborators
\* torch_utility.hard_sync(targ, src): every parameter tensor of src is
\* copied into targ; the result is the new value of targ.
hard_sync(targ, src) == [m \in Members |-> src[m]]

\* DiscreteEnsembleQFunctionForwarder.compute_expected_q(x): the ensemble's
\* expected value of every action at observation x (member mean, kept as the
\* member sum, which has the same arg-max).
compute_expected_q(net, x) ==
  [a \in Actions |-> SumSeq([m \in Members |-> net[m][x][a]])]

\* DiscreteEnsembleQFunctionForwarder.compute_expected_q(x, reduction="min").
compute_expected_q_min(net, x) ==
  [a \in Actions |-> MinSeq([m \in Members |-> net[m][x][a]])]

\* DiscreteEnsembleQFunctionForwarder.compute_target(x, action,
\* reduction="min"): element-wise minimum across members at that action.
forwarder_compute_target(net, x, action) ==
  MinSeq([m \in Members |-> net[m][x][action]])

\* DiscreteEnsembleQFunctionForwarder.compute_target(x): the min-reduced
\* value of every action, shape (batch, actions), one row per observation.
forwarder_compute_target_all(net, xs) ==
  [i \in 1..Len(xs) |->
     [a \in Actions |-> forwarder_compute_target(net, xs[i], a)]]

\* Common denominator of the temporal-difference residuals of a batch whose
\* targets are in units of 1/tden.
ResidualDen(tden) == Pow(GammaDen, MaxInterval) * tden

\* Residual of member m on transition t against the bootstrapped value
\* rew + gamma^intv * target * (1 - term), target = tnum / tden.
Residual(net, m, t, tnum, tden) ==
  net[m][t.obs][t.act] * ResidualDen(tden)
    - ( t.rew * ResidualDen(tden)
        + Pow(GammaNum, t.intv) * Pow(GammaDen, MaxInterval - t.intv)
            * tnum * (1 - t.term) )

\* DiscreteEnsembleQFunctionForwarder.compute_error: mean squared residual,
\* in units of 1/ResidualDen^2.
compute_error(net, b, q_tpn, tden) ==
  SumSeq([i \in 1..Len(b) |->
     SumSeq([m \in Members |->
        Residual(net, m, b[i], q_tpn[i][1], tden)
          * Residual(net, m, b[i], q_tpn[i][1], tden)])]) \div Len(b)

\* Derivative of compute_error with respect to every live Q parameter (up to
\* a positive factor); the target q_tpn carries no gradient.
compute_error_grad(net, b, q_tpn, tden) ==
  [m \in Members |-> [o \in Obs |-> [a \in Actions |->
     SumSeq([i \in 1..Len(b) |->
        IF b[i].obs = o /\ b[i].act = a
        THEN Residual(net, m, b[i], q_tpn[i][1], tden) ELSE 0])]]]

\* The parameter group each optimizer was built over.
OptimParams(optim) ==
  CASE optim = "optim" -> {"q"}
    [] optim = "critic_optim" -> {"q"}
    [] optim = "actor_optim" -> {"policy"}
    [] optim = "temp_optim" -> {"log_temp"}

\* Optimizer.zero_grad(): clears the .grad of the optimizer's own parameters.
zero_grad(optim, g) ==
  [q |-> IF "q" \in OptimParams(optim) THEN ZeroQ ELSE g.q,
   policy |-> IF "policy" \in OptimParams(optim) THEN ZeroPolicy ELSE g.policy,
   log_temp |-> IF "log_temp" \in OptimParams(optim) THEN 0 ELSE g.log_temp]

\* loss.backward(): adds the loss's derivative to the .grad of every
\* parameter the loss was computed from with gradient tracking.
backward(g, d) ==
  [q |-> [m \in Members |-> [o \in Obs |-> [a \in Actions |->
            g.q[m][o][a] + d.q[m][o][a]]]],
   policy |-> [o \in Obs |-> [a \in Actions |->
            g.policy[o][a] + d.policy[o][a]]],
   log_temp |-> g.log_temp + d.log_temp]

\* Optimizer.step() on a scalar-valued parameter entry.
StepValue(p, g) == p - Sign(g)

StepQ(net, g) ==
  [m \in Members |-> [o \in Obs |-> [a \in Actions |->
     StepValue(net[m][o][a], g[m][o][a])]]]

\* Optimizer.step() on one observation's action probabilities: one unit of
\* mass moves from the action with the largest logit gradient to the action
\* with the smallest one.
StepProbs(row, g) ==
  LET dec == ArgMax(g)
      inc == ArgMax([a \in Actions |-> -g[a]])
  IN IF g[dec] > 0 /\ g[inc] < 0
     THEN [a \in Actions |->
             IF a = dec THEN row[a] - 1
             ELSE IF a = inc THEN row[a] + 1 ELSE row[a]]
     ELSE row

StepPolicy(pol, g) == [o \in Obs |-> StepProbs(pol[o], g[o])]

\* Optimizer.step(): updates the optimizer's own parameters from their .grad.
optim_step(optim, params, g) ==
  [q |-> IF "q" \in OptimParams(optim) THEN StepQ(params.q, g.q)
         ELSE params.q,
   policy |-> IF "policy" \in OptimParams(optim)
              THEN StepPolicy(params.policy, g.policy) ELSE params.policy,
   log_temp |-> IF "log_temp" \in OptimParams(optim)
                THEN StepValue(params.log_temp, g.log_temp)
                ELSE params.log_temp]

\* The parameters stay on the grid of the model.
InGrid(params) ==
  /\ \A m \in Members, o \in Obs, a \in Actions : params.q[m][o][a] \in QVals
  /\ \A o \in Obs, a \in Actions : params.policy[o][a] \in 1..(Denom - 1)
  /\ params.log_temp \in LogTemps

Params == [q |-> q_funcs, policy |-> policy, log_temp |-> log_temp]

OnlyQ(d) == [q |-> d, policy |-> ZeroPolicy, log_temp |-> 0]
OnlyLogTemp(d) == [q |-> ZeroQ, policy |-> ZeroPolicy, log_temp |-> d]

NextObs(b) == [i \in 1..Len(b) |-> b[i].next]

\* --------------------------------------------------------------- DQNImpl
\* DQNImpl.inner_predict_best_action, one action per observation of x.
DQN_inner_predict_best_action(xs) ==
  [i \in 1..Len(xs) |-> ArgMax(compute_expected_q(q_funcs, xs[i]))]

\* DQNImpl.compute_target(batch): arg-max over the target ensemble's expected
\* Q; nx = batch.next_observations, the only field of the batch it reads.
\* The result has shape (batch, 1).
DQNImpl_compute_target(nx) ==
  [i \in 1..Len(nx) |->
     LET next_actions == compute_expected_q(targ_q_funcs, nx[i])
         max_action == ArgMax(next_actions)
     IN <<forwarder_compute_target(targ_q_funcs, nx[i], max_action)>>]


\* Faulty variant of DoubleDQNImpl.compute_target: the action is the arg-max
\* of the target ensemble, as in DQNImpl.
DoubleDQN_target_argmax_of_target(nx) ==
  [i \in 1..Len(nx) |->
     LET action == ArgMax(compute_expected_q(targ_q_funcs, nx[i]))
     IN <<forwarder_compute_target(targ_q_funcs, nx[i], action)>>]

\* Faulty variant of DoubleDQNImpl.compute_target: the target ensemble is
\* reduced with "max" instead of "min".
DoubleDQN_target_max_reduction(nx) ==
  [i \in 1..Len(nx) |->
     LET action == DQN_inner_predict_best_action(nx)[i]
     IN <<0 - MinSeq([m \in Members |->
                        0 - targ_q_funcs[m][nx[i]][action]])>>]

\* DoubleDQNImpl.compute_target(batch): arg-max over the live ensemble.
DoubleDQNImpl_compute_target(nx) ==
  [i \in 1..Len(nx) |->
     LET action == DQN_inner_predict_best_action(nx)[i]
     IN <<forwarder_compute_target(targ_q_funcs, nx[i], action)>>]

\* self.compute_target, as the class of the object resolves it.
compute_target(nx) ==
  IF algo = "DoubleDQN" THEN DoubleDQNImpl_compute_target(nx)
  ELSE DQNImpl_compute_target(nx)

\* DQNImpl.compute_loss, and its derivative.
DQN_compute_loss(b, q_tpn) == compute_error(q_funcs, b, q_tpn, 1)
DQN_compute_loss_grad(b, q_tpn) ==
  OnlyQ(compute_error_grad(q_funcs, b, q_tpn, 1))


\* Faulty variant of DQNImpl.__init__: the hard_sync call is missing.
DQNImpl_init_without_sync ==
  /\ pc = "new"
  /\ algo \in {"DQN", "DoubleDQN"}
  /\ pc' = "ready"
  /\ last' = "init"
  /\ arg' = <<>>
  /\ UNCHANGED <<algo, q_funcs, targ_q_funcs, policy, log_temp, grad,
                 q_training, ret, calls, t_in, t_out>>

\* DQNImpl.__init__ (DoubleDQNImpl inherits it).
DQNImpl_init ==
  /\ pc = "new"
  /\ algo \in {"DQN", "DoubleDQN"}
  /\ targ_q_funcs' = hard_sync(targ_q_funcs, q_funcs)
  /\ pc' = "ready"
  /\ last' = "init"
  /\ arg' = <<>>
  /\ UNCHANGED <<algo, q_funcs, policy, log_temp, grad, q_training, ret, calls, t_in,
                 t_out>>


\* Faulty variant of DQNImpl.update: the optimizer is stepped first, on the
\* gradients the previous call left, and the gradients are zeroed and the
\* loss backpropagated afterwards.
DQNImpl_update_step_first(b) ==
  /\ pc = "ready"
  /\ algo \in {"DQN", "DoubleDQN"}
  /\ calls < MaxCalls
  /\ \E new \in {optim_step("optim", Params, grad)} :
     \E g0 \in {zero_grad("optim", grad)} :
     \E q_tpn \in {compute_target(NextObs(b))} :
     \E loss \in {DQN_compute_loss(b, q_tpn)} :
     \E g1 \in {backward(g0, DQN_compute_loss_grad(b, q_tpn))} :
        /\ InGrid(new)
        /\ grad' = g1
        /\ q_funcs' = new.q
        /\ policy' = new.policy
        /\ log_temp' = new.log_temp
        /\ ret' = [loss |-> loss, temp |-> 0, out |-> <<>>]
  /\ last' = "update"
  /\ arg' = b
  /\ calls' = calls + 1
  /\ UNCHANGED <<algo, pc, targ_q_funcs, q_training, t_in, t_out>>

\* DQNImpl.update(batch).
DQNImpl_update(b) ==
  /\ pc = "ready"
  /\ algo \in {"DQN", "DoubleDQN"}
  /\ calls < MaxCalls
  /\ \E g0 \in {zero_grad("optim", grad)} :
     \E q_tpn \in {compute_target(NextObs(b))} :
     \E loss \in {DQN_compute_loss(b, q_tpn)} :
     \E g1 \in {backward(g0, DQN_compute_loss_grad(b, q_tpn))} :
     \E new \in {optim_step("optim", Params, g1)} :
        /\ InGrid(new)
        /\ grad' = g1
        /\ q_funcs' = new.q
        /\ policy' = new.policy
        /\ log_temp' = new.log_temp
        /\ ret' = [loss |-> loss, temp |-> 0, out |-> <<>>]
  /\ last' = "update"
  /\ arg' = b
  /\ calls' = calls + 1
  /\ UNCHANGED <<algo, pc, targ_q_funcs, q_training, t_in, t_out>>


\* Faulty variant of DQNImpl.update_target: only the first member of the
\* ensemble is copied.
DQNImpl_update_target_first_member ==
  /\ pc = "ready"
  /\ algo \in {"DQN", "DoubleDQN"}
  /\ targ_q_funcs' = [m \in Members |->
                        IF m = 1 THEN q_funcs[m] ELSE targ_q_funcs[m]]
  /\ last' = "update_target"
  /\ arg' = <<>>
  /\ ret' = NoRet
  /\ UNCHANGED <<algo, pc, q_funcs, policy, log_temp, grad, q_training, calls,
                 t_in, t_out>>

\* DQNImpl.update_target().
DQNImpl_update_target ==
  /\ pc = "ready"
  /\ algo \in {"DQN", "DoubleDQN"}
  /\ targ_q_funcs' = hard_sync(targ_q_funcs, q_funcs)
  /\ last' = "update_target"
  /\ arg' = <<>>
  /\ ret' = NoRet
  /\ UNCHANGED <<algo, pc, q_funcs, policy, log_temp, grad, q_training, calls,
                 t_in, t_out>>

\* DQNImpl.compute_target(batch), called on its own.
DQNImpl_call_compute_target(nx) ==
  /\ pc = "ready"
  /\ algo \in {"DQN", "DoubleDQN"}
  /\ calls < MaxCalls
  /\ ret' = [NoRet EXCEPT !.out = compute_target(nx)]
  /\ last' = "compute_target"
  /\ arg' = nx
  /\ calls' = calls + 1
  /\ UNCHANGED <<algo, pc, q_funcs, targ_q_funcs, policy, log_temp, grad,
                 q_training, t_in, t_out>>

\* DQNImpl.inner_predict_best_action(x), called on its own.
DQNImpl_inner_predict_best_action(xs) ==
  /\ pc = "ready"
  /\ algo \in {"DQN", "DoubleDQN"}
  /\ calls < MaxCalls
  /\ ret' = [NoRet EXCEPT !.out = DQN_inner_predict_best_action(xs)]
  /\ last' = "inner_predict_best_action"
  /\ arg' = xs
  /\ calls' = calls + 1
  /\ UNCHANGED <<algo, pc, q_funcs, targ_q_funcs, policy, log_temp, grad,
                 q_training, t_in, t_out>>

\* DQNImpl.inner_sample_action(x): the greedy action again.
DQNImpl_inner_sample_action(xs) ==
  /\ pc = "ready"
  /\ algo \in {"DQN", "DoubleDQN"}
  /\ calls < MaxCalls
  /\ ret' = [NoRet EXCEPT !.out = DQN_inner_predict_best_action(xs)]
  /\ last' = "inner_sample_action"
  /\ arg' = xs
  /\ calls' = calls + 1
  /\ UNCHANGED <<algo, pc, q_funcs, targ_q_funcs, policy, log_temp, grad,
                 q_training, t_in, t_out>>

\* ------------------------------------------------------- DiscreteSACImpl
\* CategoricalPolicy(x): dist.probs in units of 1/Denom and dist.logits (the
\* normalised log-probabilities) in units of 1/10, shape (batch, actions).
Probs(xs) == FromRows([i \in 1..Len(xs) |-> policy[xs[i]]])
Logits(xs) ==
  FromRows([i \in 1..Len(xs) |->
              [a \in Actions |-> LogProb(policy[xs[i]][a])]])


\* Faulty variant of the body of DiscreteSACImpl.compute_target: the sum over
\* the action axis keeps its dimension for both target ranks.
target_reduce_keepdims(probs, log_probs, lt, target) ==
  LET entropy == Scale(Exp(lt), log_probs)
  IN IF Dim(target) = 3
     THEN SumDim1(Mul(Unsqueeze(probs), Sub(target, Unsqueeze(entropy))),
                  TRUE)
     ELSE SumDim1(Mul(probs, Sub(target, entropy)), TRUE)

\* The body of DiscreteSACImpl.compute_target once dist and target are
\* known.  The result is in units of 1/(100 * Denom).
target_reduce(probs, log_probs, lt, target) ==
  LET entropy == Scale(Exp(lt), log_probs)
  IN IF Dim(target) = 3
     THEN SumDim1(Mul(Unsqueeze(probs), Sub(target, Unsqueeze(entropy))),
                  FALSE)
     ELSE SumDim1(Mul(probs, Sub(target, entropy)), TRUE)

\* DiscreteSACImpl.compute_target(batch); nx = batch.next_observations.
DiscreteSACImpl_compute_target(nx) ==
  target_reduce(Probs(nx), Logits(nx), log_temp,
     FromRows(forwarder_compute_target_all(targ_q_funcs, nx)))

\* DiscreteSACImpl.compute_critic_loss, and its derivative.
compute_critic_loss(b, q_tpn) ==
  compute_error(q_funcs, b, Rows(q_tpn), 100 * Denom)
compute_critic_loss_grad(b, q_tpn) ==
  OnlyQ(compute_error_grad(q_funcs, b, Rows(q_tpn), 100 * Denom))

\* entropy - q_t of one action at observation x, in units of 1/100.
ActorTerm(x, a) ==
  Exp(log_temp) * LogProb(policy[x][a])
    - 100 * compute_expected_q_min(q_funcs, x)[a]

\* DiscreteSACImpl.compute_actor_loss(batch), in units of 1/(100 * Denom);
\* xs = batch.observations, the only field of the batch it reads.
compute_actor_loss(xs) ==
  SumSeq([i \in 1..Len(xs) |->
     SumSeq([a \in Actions |->
        policy[xs[i]][a] * ActorTerm(xs[i], a)])]) \div Len(xs)

\* Its derivative: with respect to the policy logits of every observation
\* (units of 1/(100 * Denom^2)), and with respect to log_temp (units of
\* 1/(100 * Denom)); q_t carries no gradient.
compute_actor_loss_grad(xs) ==
  [q |-> ZeroQ,
   policy |-> [o \in Obs |-> [c \in Actions |->
      SumSeq([i \in 1..Len(xs) |->
         IF xs[i] = o
         THEN policy[o][c]
                * ( Denom * ActorTerm(o, c)
                    - SumSeq([a \in Actions |->
                               policy[o][a] * ActorTerm(o, a)]) )
         ELSE 0])]],
   log_temp |->
      SumSeq([i \in 1..Len(xs) |->
         SumSeq([a \in Actions |->
            policy[xs[i]][a] * Exp(log_temp) * LogProb(policy[xs[i]][a])])])]

\* Faulty variant of the entropy target: the factor 0.98 is missing.
MaxEntropyTarget == 100 * Ln(ActionSize)

\* entropy_target = 0.98 * (-math.log(1 / action_size)), in units of 1/1000.
EntropyTarget == 98 * Ln(ActionSize)

\* targ_temp of one observation, in units of 1/(1000 * Denom).
TargTemp(x) ==
  100 * SumSeq([a \in Actions |-> policy[x][a] * LogProb(policy[x][a])])
    + Denom * EntropyTarget

\* The temperature loss of DiscreteSACImpl.update_temp, in units of
\* 1/(10000 * Denom), and its derivative with respect to log_temp;
\* xs = batch.observations.
temp_loss(xs) ==
  (0 - SumSeq([i \in 1..Len(xs) |-> Exp(log_temp) * TargTemp(xs[i])]))
     \div Len(xs)
temp_loss_grad(xs) ==
  OnlyLogTemp(
    0 - SumSeq([i \in 1..Len(xs) |-> Exp(log_temp) * TargTemp(xs[i])]))

\* DiscreteSACImpl.__init__
DiscreteSACImpl_init ==
  /\ pc = "new"
  /\ algo = "DiscreteSAC"
  /\ targ_q_funcs' = hard_sync(targ_q_funcs, q_funcs)
  /\ pc' = "ready"
  /\ last' = "init"
  /\ arg' = <<>>
  /\ UNCHANGED <<algo, q_funcs, policy, log_temp, grad, q_training, ret, calls, t_in,
                 t_out>>


\* Faulty variant of DiscreteSACImpl.update_critic: the target ensemble is
\* synced to the stepped live ensemble at the end of the call.
update_critic_syncing_target(b) ==
  /\ pc = "ready"
  /\ algo = "DiscreteSAC"
  /\ calls < MaxCalls
  /\ \E g0 \in {zero_grad("critic_optim", grad)} :
     \E q_tpn \in {DiscreteSACImpl_compute_target(NextObs(b))} :
     \E loss \in {compute_critic_loss(b, q_tpn)} :
     \E g1 \in {backward(g0, compute_critic_loss_grad(b, q_tpn))} :
     \E new \in {optim_step("critic_optim", Params, g1)} :
        /\ InGrid(new)
        /\ grad' = g1
        /\ q_funcs' = new.q
        /\ policy' = new.policy
        /\ log_temp' = new.log_temp
        /\ targ_q_funcs' = hard_sync(targ_q_funcs, new.q)
        /\ ret' = [loss |-> loss, temp |-> 0, out |-> <<>>]
  /\ last' = "update_critic"
  /\ arg' = b
  /\ calls' = calls + 1
  /\ UNCHANGED <<algo, pc, q_training, t_in, t_out>>

\* DiscreteSACImpl.update_critic(batch)
update_critic(b) ==
  /\ pc = "ready"
  /\ algo = "DiscreteSAC"
  /\ calls < MaxCalls
  /\ \E g0 \in {zero_grad("critic_optim", grad)} :
     \E q_tpn \in {DiscreteSACImpl_compute_target(NextObs(b))} :
     \E loss \in {compute_critic_loss(b, q_tpn)} :
     \E g1 \in {backward(g0, compute_critic_loss_grad(b, q_tpn))} :
     \E new \in {optim_step("critic_optim", Params, g1)} :
        /\ InGrid(new)
        /\ grad' = g1
        /\ q_funcs' = new.q
        /\ policy' = new.policy
        /\ log_temp' = new.log_temp
        /\ ret' = [loss |-> loss, temp |-> 0, out |-> <<>>]
  /\ last' = "update_critic"
  /\ arg' = b
  /\ calls' = calls + 1
  /\ UNCHANGED <<algo, pc, targ_q_funcs, q_training, t_in, t_out>>


\* Faulty variant of DiscreteSACImpl.update_actor: the temperature parameter
\* is stepped along with the policy.
update_actor_with_temp(xs) ==
  /\ pc = "ready"
  /\ algo = "DiscreteSAC"
  /\ calls < MaxCalls
  /\ q_training' = FALSE
  /\ \E g0 \in {zero_grad("actor_optim", grad)} :
     \E loss \in {compute_actor_loss(xs)} :
     \E g1 \in {backward(g0, compute_actor_loss_grad(xs))} :
     \E new \in {optim_step("temp_optim",
                            optim_step("actor_optim", Params, g1), g1)} :
        /\ InGrid(new)
        /\ grad' = g1
        /\ q_funcs' = new.q
        /\ policy' = new.policy
        /\ log_temp' = new.log_temp
        /\ ret' = [loss |-> loss, temp |-> 0, out |-> <<>>]
  /\ last' = "update_actor"
  /\ arg' = xs
  /\ calls' = calls + 1
  /\ UNCHANGED <<algo, pc, targ_q_funcs, t_in, t_out>>

\* DiscreteSACImpl.update_actor(batch); xs = batch.observations.
update_actor(xs) ==
  /\ pc = "ready"
  /\ algo = "DiscreteSAC"
  /\ calls < MaxCalls
  /\ q_training' = FALSE
  /\ \E g0 \in {zero_grad("actor_optim", grad)} :
     \E loss \in {compute_actor_loss(xs)} :
     \E g1 \in {backward(g0, compute_actor_loss_grad(xs))} :
     \E new \in {optim_step("actor_optim", Params, g1)} :
        /\ InGrid(new)
        /\ grad' = g1
        /\ q_funcs' = new.q
        /\ policy' = new.policy
        /\ log_temp' = new.log_temp
        /\ ret' = [loss |-> loss, temp |-> 0, out |-> <<>>]
  /\ last' = "update_actor"
  /\ arg' = xs
  /\ calls' = calls + 1
  /\ UNCHANGED <<algo, pc, targ_q_funcs, t_in, t_out>>


\* Faulty variant of DiscreteSACImpl.update_temp: temp_optim.zero_grad() is
\* missing, so the backward pass adds to whatever gradient log_temp held.
update_temp_without_zero_grad(xs) ==
  /\ pc = "ready"
  /\ algo = "DiscreteSAC"
  /\ calls < MaxCalls
  /\ \E loss \in {temp_loss(xs)} :
     \E g1 \in {backward(grad, temp_loss_grad(xs))} :
     \E new \in {optim_step("temp_optim", Params, g1)} :
        /\ InGrid(new)
        /\ grad' = g1
        /\ q_funcs' = new.q
        /\ policy' = new.policy
        /\ log_temp' = new.log_temp
        /\ ret' = [loss |-> loss, temp |-> Exp(new.log_temp), out |-> <<>>]
  /\ last' = "update_temp"
  /\ arg' = xs
  /\ calls' = calls + 1
  /\ UNCHANGED <<algo, pc, targ_q_funcs, q_training, t_in, t_out>>

\* DiscreteSACImpl.update_temp(batch); xs = batch.observations.
update_temp(xs) ==
  /\ pc = "ready"
  /\ algo = "DiscreteSAC"
  /\ calls < MaxCalls
  /\ \E g0 \in {zero_grad("temp_optim", grad)} :
     \E loss \in {temp_loss(xs)} :
     \E g1 \in {backward(g0, temp_loss_grad(xs))} :
     \E new \in {optim_step("temp_optim", Params, g1)} :
        /\ InGrid(new)
        /\ grad' = g1
        /\ q_funcs' = new.q
        /\ policy' = new.policy
        /\ log_temp' = new.log_temp
        /\ ret' = [loss |-> loss, temp |-> Exp(new.log_temp), out |-> <<>>]
  /\ last' = "update_temp"
  /\ arg' = xs
  /\ calls' = calls + 1
  /\ UNCHANGED <<algo, pc, targ_q_funcs, q_training, t_in, t_out>>

\* DiscreteSACImpl.update_target()
DiscreteSACImpl_update_target ==
  /\ pc = "ready"
  /\ algo = "DiscreteSAC"
  /\ targ_q_funcs' = hard_sync(targ_q_funcs, q_funcs)
  /\ last' = "update_target"
  /\ arg' = <<>>
  /\ ret' = NoRet
  /\ UNCHANGED <<algo, pc, q_funcs, policy, log_temp, grad, q_training, calls,
                 t_in, t_out>>

\* DiscreteSACImpl.compute_target(batch), called on its own.
DiscreteSACImpl_call_compute_target(nx) ==
  /\ pc = "ready"
  /\ algo = "DiscreteSAC"
  /\ calls < MaxCalls
  /\ ret' = [NoRet EXCEPT !.out = Rows(DiscreteSACImpl_compute_target(nx))]
  /\ last' = "compute_target"
  /\ arg' = nx
  /\ calls' = calls + 1
  /\ UNCHANGED <<algo, pc, q_funcs, targ_q_funcs, policy, log_temp, grad,
                 q_training, t_in, t_out>>

\* DiscreteSACImpl.inner_predict_best_action(x): arg-max of dist.probs.
DiscreteSACImpl_inner_predict_best_action(xs) ==
  /\ pc = "ready"
  /\ algo = "DiscreteSAC"
  /\ calls < MaxCalls
  /\ ret' = [NoRet EXCEPT !.out = [i \in 1..Len(xs) |-> ArgMax(policy[xs[i]])]]
  /\ last' = "inner_predict_best_action"
  /\ arg' = xs
  /\ calls' = calls + 1
  /\ UNCHANGED <<algo, pc, q_funcs, targ_q_funcs, policy, log_temp, grad,
                 q_training, t_in, t_out>>

\* DiscreteSACImpl.inner_sample_action(x): dist.sample() draws any action of
\* positive probability.
DiscreteSACImpl_inner_sample_action(xs) ==
  /\ pc = "ready"
  /\ algo = "DiscreteSAC"
  /\ calls < MaxCalls
  /\ \E draw \in [1..Len(xs) -> Actions] :
       /\ \A i \in 1..Len(xs) : policy[xs[i]][draw[i]] > 0
       /\ ret' = [NoRet EXCEPT !.out = draw]
  /\ last' = "inner_sample_action"
  /\ arg' = xs
  /\ calls' = calls + 1
  /\ UNCHANGED <<algo, pc, q_funcs, targ_q_funcs, policy, log_temp, grad,
                 q_training, t_in, t_out>>

\* ---------------------------------------------------------------- SACImpl
\* DDPGBaseImpl.__init__, which SACImpl.__init__ delegates to: the target
\* ensemble is hard-synced with the live one.
DDPGBaseImpl_init_targ == hard_sync(targ_q_funcs, q_funcs)

\* SACImpl.__init__
SACImpl_init ==
  /\ pc = "new"
  /\ algo = "SAC"
  /\ targ_q_funcs' = DDPGBaseImpl_init_targ
  /\ pc' = "ready"
  /\ last' = "init"
  /\ arg' = <<>>
  /\ UNCHANGED <<algo, q_funcs, policy, log_temp, grad, q_training, ret, calls,
                 t_in, t_out>>

\* Log-probabilities dist.sample_with_log_prob() may return for a sample of
\* the squashed Gaussian, in units of 1/10.
SampleLogProbs == {-30, 0, 30}

\* targ_temp = log_prob - action_size, in units of 1/10.
SAC_targ_temp(lp) == lp - 10 * ActionSize

\* The temperature loss of SACImpl.update_temp, in units of 1/100, and its
\* derivative with respect to log_temp.
SAC_temp_loss(lps) ==
  (0 - SumSeq([i \in 1..Len(lps) |-> Exp(log_temp) * SAC_targ_temp(lps[i])]))
     \div Len(lps)
SAC_temp_loss_grad(lps) ==
  OnlyLogTemp(
    0 - SumSeq([i \in 1..Len(lps) |-> Exp(log_temp) * SAC_targ_temp(lps[i])]))

\* SACImpl.update_temp(batch); lps are the log-probabilities of the actions
\* sampled for the batch's observations.
SACImpl_update_temp(lps) ==
  /\ pc = "ready"
  /\ algo = "SAC"
  /\ calls < MaxCalls
  /\ \E g0 \in {zero_grad("temp_optim", grad)} :
     \E loss \in {SAC_temp_loss(lps)} :
     \E g1 \in {backward(g0, SAC_temp_loss_grad(lps))} :
     \E new \in {optim_step("temp_optim", Params, g1)} :
        /\ InGrid(new)
        /\ grad' = g1
        /\ q_funcs' = new.q
        /\ policy' = new.policy
        /\ log_temp' = new.log_temp
        /\ ret' = [loss |-> loss, temp |-> Exp(new.log_temp), out |-> <<>>]
  /\ last' = "update_temp"
  /\ arg' = lps
  /\ calls' = calls + 1
  /\ UNCHANGED <<algo, pc, targ_q_funcs, q_training, t_in, t_out>>

\* ------------------------------------------------- target computation alone
\* Number of rows and of trailing entries of the tensors tried.
MaxRows == 2
MaxTrail == 2

\* A target tensor of the given shape whose entries follow from a seed.
SeedTensor(shape, seed) ==
  [shape |-> shape,
   at |-> [idx \in Indices(shape) |->
             (seed + SumSeq([k \in 1..Len(idx) |-> k * idx[k]])) % (MaxQ + 1)]]

\* What DiscreteSACImpl.compute_target may get from the policy and from the
\* target forwarder: a (batch, actions) target of a scalar critic, or a
\* (batch, actions, N) target of a distributional one.
TargetInputs ==
  UNION {
    [dists : [1..n -> GridDists],
     lt : LogTemps,
     target : {SeedTensor(<<n, ActionSize>>, sd) : sd \in 0..MaxQ}
              \cup {SeedTensor(<<n, ActionSize, k>>, sd) :
                      sd \in 0..MaxQ, k \in 1..MaxTrail}]
    : n \in 1..MaxRows}

\* dist.probs and dist.logits of the distributions of an input.
InProbs(in) == FromRows(in.dists)
InLogits(in) ==
  FromRows([i \in 1..Len(in.dists) |->
              [a \in Actions |-> LogProb(in.dists[i][a])]])

\* DiscreteSACImpl.compute_target on the input t_in.
apply_compute_target ==
  /\ pc = "target"
  /\ t_out = NoTensor
  /\ t_out' = target_reduce(InProbs(t_in), InLogits(t_in), t_in.lt, t_in.target)
  /\ UNCHANGED <<algo, pc, q_funcs, targ_q_funcs, policy, log_temp, grad,
                 q_training, last, ret, arg, calls, t_in>>

\* ------------------------------------------------------------------ spec
\* Networks handed to the constructor, live or target: all zero, one action
\* preferred by every member, and one member alone preferring an action; the
\* same at every observation.
InitNets ==
  {[m \in Members |-> [o \in Obs |-> [a \in Actions |-> 0]]],
   [m \in Members |-> [o \in Obs |-> [a \in Actions |->
      IF a = 1 THEN MaxQ ELSE 0]]],
   [m \in Members |-> [o \in Obs |-> [a \in Actions |->
      IF m = 1 /\ a = 1 THEN MaxQ ELSE 0]]]}

\* Policies handed to the constructor: a distribution of the grid that gives
\* the first action at least the mass of the last one, the same at every
\* observation.
InitPolicies ==
  {[o \in Obs |-> d] : d \in {e \in GridDists : e[1] >= e[ActionSize]}}
DefaultPolicy == CHOOSE pol \in InitPolicies : TRUE

Init ==
  /\ algo \in Algos
  /\ pc = "new"
  /\ q_funcs \in InitNets
  /\ targ_q_funcs \in InitNets
  /\ policy \in
       IF algo = "DiscreteSAC" THEN InitPolicies ELSE {DefaultPolicy}
  /\ log_temp = 0
  /\ grad = NoGrad
  /\ q_training = TRUE
  /\ last = "none"
  /\ ret = NoRet
  /\ arg = <<>>
  /\ calls = 0
  /\ t_in = NoInput
  /\ t_out = NoTensor

Next ==
  \/ DQNImpl_init
  \/ \E b \in Batches : DQNImpl_update(b)
  \/ DQNImpl_update_target
  \/ DiscreteSACImpl_init
  \/ \E b \in Batches : update_critic(b)
  \/ \E xs \in ObsBatches : update_actor(xs)
  \/ \E xs \in ObsBatches : update_temp(xs)
  \/ DiscreteSACImpl_update_target
  \/ \E nx \in ObsBatches : DQNImpl_call_compute_target(nx)
  \/ \E xs \in ObsBatches : DQNImpl_inner_predict_best_action(xs)
  \/ \E xs \in ObsBatches : DQNImpl_inner_sample_action(xs)
  \/ \E nx \in ObsBatches : DiscreteSACImpl_call_compute_target(nx)
  \/ \E xs \in ObsBatches : DiscreteSACImpl_inner_predict_best_action(xs)
  \/ \E xs \in ObsBatches : DiscreteSACImpl_inner_sample_action(xs)
  \/ SACImpl_init
  \/ \E lps \in [1..BatchSize -> SampleLogProbs] : SACImpl_update_temp(lps)

Spec == Init /\ [][Next]_vars

\* DiscreteSACImpl.compute_target applied to every input of TargetInputs.
InitTarget ==
  /\ algo = "DiscreteSAC"
  /\ pc = "target"
  /\ q_funcs = ZeroQ
  /\ targ_q_funcs = ZeroQ
  /\ policy = DefaultPolicy
  /\ log_temp = 0
  /\ grad = NoGrad
  /\ q_training = TRUE
  /\ last = "none"
  /\ ret = NoRet
  /\ arg = <<>>
  /\ calls = 0
  /\ t_in \in TargetInputs
  /\ t_out = NoTensor

NextTarget == apply_compute_target

SpecTarget == InitTarget /\ [][NextTarget]_vars

\* ------------------------------------------------------------- properties
EqualNets(x, y) ==
  \A m \in Members, o \in Obs, a \in Actions : x[m][o][a] = y[m][o][a]

DQNFamily == {"DQN", "DoubleDQN"}

\* C1: immediately after construction, whatever the networks held before,
\* every target Q-function parameter equals the corresponding live one.
C1_TargetEqualsLiveAfterInit ==
  last = "init" => (pc = "ready" /\ EqualNets(targ_q_funcs, q_funcs))

C1_Witness ==
  /\ last = "init"
  /\ algo = "DiscreteSAC"
  /\ q_funcs # ZeroQ
  /\ EqualNets(targ_q_funcs, q_funcs)

\* C2: update_target() leaves the target parameters equal to the live
\* parameters of that moment and leaves the live parameters unchanged.
C2_UpdateTargetHardCopies ==
  [][last' = "update_target"
       => (EqualNets(targ_q_funcs', q_funcs) /\ q_funcs' = q_funcs)]_vars

\* update_target() has run after updates made the live ensemble drift.
C2_Witness ==
  /\ last = "update_target"
  /\ calls > 0
  /\ q_funcs \notin InitNets
  /\ EqualNets(targ_q_funcs, q_funcs)

\* C3: the target parameters change only in a sync call (construction or
\* update_target); no update, target computation or action query does it.
C3_TargetFixedBetweenSyncs ==
  [][targ_q_funcs' # targ_q_funcs => last' \in {"init", "update_target"}]_vars

\* Updates have moved the live ensemble while the target stayed.
C3_Witness ==
  /\ calls = MaxCalls
  /\ last \in {"update", "update_critic"}
  /\ ~EqualNets(targ_q_funcs, q_funcs)

\* v is the minimum across the members of the target ensemble at (x, a).
IsMinAt(v, x, a) ==
  /\ \A m \in Members : v <= targ_q_funcs[m][x][a]
  /\ \E m \in Members : v = targ_q_funcs[m][x][a]

\* a is the first action of maximal expected Q of net at x.
IsFirstArgMax(net, x, a) ==
  /\ \A c \in Actions : compute_expected_q(net, x)[c]
                          <= compute_expected_q(net, x)[a]
  /\ \A c \in 1..(a - 1) : compute_expected_q(net, x)[c]
                             < compute_expected_q(net, x)[a]

\* The members of the target ensemble disagree at observation x.
TargetsDisagree(x) ==
  \E m1 \in Members, m2 \in Members, a \in Actions :
     targ_q_funcs[m1][x][a] # targ_q_funcs[m2][x][a]

ArgMaxDiffer(x) ==
  ArgMax(compute_expected_q(targ_q_funcs, x))
    # ArgMax(compute_expected_q(q_funcs, x))

\* C4 as stated: whenever the target members disagree and the live and target
\* arg-max actions differ, the two variants yield different target values.
C4_Original ==
  (pc = "ready" /\ algo \in DQNFamily) =>
    \A nx \in ObsBatches : \A i \in 1..Len(nx) :
       (NumMembers >= 2 /\ TargetsDisagree(nx[i]) /\ ArgMaxDiffer(nx[i]))
         => DQNImpl_compute_target(nx)[i] # DoubleDQNImpl_compute_target(nx)[i]

\* C4, amended: DQN returns the target ensemble's minimum at the target
\* ensemble's arg-max action, Double DQN the target ensemble's minimum at the
\* live ensemble's arg-max action; so the two values differ exactly when those
\* two minima differ.
C4_TargetsDifferOnlyInArgMaxSource ==
  (pc = "ready" /\ algo \in DQNFamily) =>
    \A nx \in ObsBatches : \A i \in 1..Len(nx) :
      \E at \in Actions, al \in Actions :
         /\ IsFirstArgMax(targ_q_funcs, nx[i], at)
         /\ IsFirstArgMax(q_funcs, nx[i], al)
         /\ Len(DQNImpl_compute_target(nx)[i]) = 1
         /\ Len(DoubleDQNImpl_compute_target(nx)[i]) = 1
         /\ IsMinAt(DQNImpl_compute_target(nx)[i][1], nx[i], at)
         /\ IsMinAt(DoubleDQNImpl_compute_target(nx)[i][1], nx[i], al)

\* Disagreeing target members, differing arg-max actions, differing values.
C4_Witness ==
  /\ pc = "ready"
  /\ algo \in DQNFamily
  /\ \E nx \in ObsBatches : \E i \in 1..Len(nx) :
       /\ TargetsDisagree(nx[i])
       /\ ArgMaxDiffer(nx[i])
       /\ DQNImpl_compute_target(nx)[i] # DoubleDQNImpl_compute_target(nx)[i]

\* Entropy of the policy at x, in units of 1/(10 * Denom).
EntropyNum(x) ==
  0 - SumSeq([a \in Actions |-> policy[x][a] * LogProb(policy[x][a])])

\* C5 as stated: two batches with different observations and the same
\* log_temp give temperature-loss gradients of the same sign.
C5_Original ==
  (pc = "ready" /\ algo = "DiscreteSAC") =>
    \A xs1 \in ObsBatches, xs2 \in ObsBatches :
       Sign(temp_loss_grad(xs1).log_temp) = Sign(temp_loss_grad(xs2).log_temp)

\* C5, amended: the entropy target is 0.98 * log(action_size) for every
\* batch, and the gradient's sign, hence the direction update_temp moves
\* log_temp in, is the sign of (entropy of the policy over the batch's
\* observations - entropy target).
C5_GradientFollowsEntropy ==
  [][(algo = "DiscreteSAC" /\ last' = "update_temp" /\ calls' = calls + 1)
       => /\ Sign(temp_loss_grad(arg').log_temp)
               = Sign(SumSeq([i \in 1..Len(arg') |->
                    100 * EntropyNum(arg'[i])
                      - Denom * 98 * Ln(ActionSize)]))
          /\ log_temp' = log_temp - Sign(temp_loss_grad(arg').log_temp)]_vars

\* update_temp has run in a state where two batches pull log_temp in
\* different directions.
C5_Witness ==
  /\ algo = "DiscreteSAC"
  /\ last = "update_temp"
  /\ \E xs1 \in ObsBatches, xs2 \in ObsBatches :
       Sign(temp_loss_grad(xs1).log_temp) # Sign(temp_loss_grad(xs2).log_temp)

\* Entry (i, a) or (i, a, j) of the target given to compute_target.
TargetEntry(i, a, j) ==
  IF Dim(t_in.target) = 3 THEN t_in.target.at[<<i, a, j>>]
  ELSE t_in.target.at[<<i, a>>]

\* C6: compute_target returns a rank-2 tensor for both target ranks, (batch,
\* 1) for a (batch, actions) target and (batch, N) for a (batch, actions, N)
\* target, each entry being the sum over the actions of
\* prob(a) * (target(a) - exp(log_temp) * log_prob(a)).
C6_TargetRankAndValue ==
  t_out # NoTensor =>
    /\ Dim(t_out) = 2
    /\ t_out.shape = IF Dim(t_in.target) = 3
                     THEN <<Len(t_in.dists), t_in.target.shape[3]>>
                     ELSE <<Len(t_in.dists), 1>>
    /\ \A i \in 1..t_out.shape[1], j \in 1..t_out.shape[2] :
         t_out.at[<<i, j>>]
           = SumSeq([a \in Actions |->
                t_in.dists[i][a]
                  * (100 * TargetEntry(i, a, j)
                       - Exp(t_in.lt) * LogProb(t_in.dists[i][a]))])

C6_Witness ==
  /\ t_out # NoTensor
  /\ Dim(t_in.target) = 3
  /\ t_in.target.shape[3] >= 2
  /\ Len(t_in.dists) >= 2
  /\ t_out.shape = <<Len(t_in.dists), t_in.target.shape[3]>>

\* The effect of one update call that zeroes the gradients of optim, computes
\* loss, backpropagates it (derivative d), steps optim once and returns loss.
InOrder(optim, loss, d) ==
  /\ ret'.loss = loss
  /\ \E fresh \in {d} :
        [q |-> q_funcs', policy |-> policy', log_temp |-> log_temp']
          = optim_step(optim, Params, fresh)

\* C7: every update entry point returns the loss computed before the step,
\* and steps its optimizer once, from the pre-call parameters, along the
\* derivative of that loss (gradients zeroed first, backward pass done).
C7_UpdateOrder ==
  [][calls' = calls + 1 =>
       CASE last' = "update" ->
              \E q_tpn \in {compute_target(NextObs(arg'))} :
                 InOrder("optim", DQN_compute_loss(arg', q_tpn),
                         DQN_compute_loss_grad(arg', q_tpn))
         [] last' = "update_critic" ->
              \E q_tpn \in {DiscreteSACImpl_compute_target(NextObs(arg'))} :
                 InOrder("critic_optim", compute_critic_loss(arg', q_tpn),
                         compute_critic_loss_grad(arg', q_tpn))
         [] last' = "update_actor" ->
              InOrder("actor_optim", compute_actor_loss(arg'),
                      compute_actor_loss_grad(arg'))
         [] last' = "update_temp" /\ algo = "DiscreteSAC" ->
              /\ InOrder("temp_optim", temp_loss(arg'), temp_loss_grad(arg'))
              /\ ret'.temp = Exp(log_temp')
         [] last' = "update_temp" /\ algo = "SAC" ->
              /\ InOrder("temp_optim", SAC_temp_loss(arg'),
                         SAC_temp_loss_grad(arg'))
              /\ ret'.temp = Exp(log_temp')
         [] OTHER -> TRUE]_vars

\* A second update has run on top of the gradients a first one left.
C7_Witness ==
  /\ calls = MaxCalls
  /\ last = "update"
  /\ grad.q # ZeroQ
  /\ ret.loss > 0

\* C8: in Discrete-SAC update_critic changes only the live Q parameters and
\* clears no gradient but theirs, update_actor changes only the policy
\* parameters and clears no gradient but theirs, update_temp changes only
\* log_temp and clears no gradient but its own.
C8_OwnOptimizerOnly ==
  [][(algo = "DiscreteSAC" /\ calls' = calls + 1) =>
       /\ last' = "update_critic" =>
            /\ policy' = policy /\ log_temp' = log_temp
            /\ targ_q_funcs' = targ_q_funcs
            /\ grad'.policy = grad.policy /\ grad'.log_temp = grad.log_temp
       /\ last' = "update_actor" =>
            /\ q_funcs' = q_funcs /\ log_temp' = log_temp
            /\ targ_q_funcs' = targ_q_funcs
            /\ grad'.q = grad.q
       /\ last' = "update_temp" =>
            /\ q_funcs' = q_funcs /\ policy' = policy
            /\ targ_q_funcs' = targ_q_funcs
            /\ grad'.q = grad.q /\ grad'.policy = grad.policy]_vars

\* update_actor has moved the policy and left a gradient on log_temp.
C8_Witness ==
  /\ algo = "DiscreteSAC"
  /\ last = "update_actor"
  /\ policy \notin InitPolicies
  /\ grad.log_temp # 0
  /\ log_temp = 0

\* C9: whenever the target parameters equal the live ones, DQN's and Double
\* DQN's compute_target return the same value for every batch.
C9_SameTargetWhenSynced ==
  (pc = "ready" /\ algo \in DQNFamily /\ EqualNets(targ_q_funcs, q_funcs)) =>
    \A nx \in ObsBatches :
       DQNImpl_compute_target(nx) = DoubleDQNImpl_compute_target(nx)

\* Synced again after updates, with members that disagree.
C9_Witness ==
  /\ algo \in DQNFamily
  /\ last = "update_target"
  /\ calls > 0
  /\ EqualNets(targ_q_funcs, q_funcs)
  /\ \E x \in Obs : TargetsDisagree(x)

\* C10: in Discrete-SAC the gradient an optimizer steps with is exactly the
\* derivative of that call's loss, whatever gradients earlier calls left: the
\* .grad of the optimizer's parameters after the call is that derivative, and
\* the parameters moved along it.
C10_NoStaleGradient ==
  [][(algo = "DiscreteSAC" /\ calls' = calls + 1) =>
       /\ last' = "update_temp" =>
            /\ grad'.log_temp = temp_loss_grad(arg').log_temp
            /\ log_temp' = StepValue(log_temp, temp_loss_grad(arg').log_temp)
       /\ last' = "update_actor" =>
            /\ grad'.policy = compute_actor_loss_grad(arg').policy
            /\ policy' = StepPolicy(policy, grad'.policy)
       /\ last' = "update_critic" =>
            \E q_tpn \in {DiscreteSACImpl_compute_target(NextObs(arg'))} :
               /\ grad'.q = compute_critic_loss_grad(arg', q_tpn).q
               /\ q_funcs' = StepQ(q_funcs, grad'.q)]_vars

\* update_temp has run after update_actor left gradients behind.
C10_Witness ==
  /\ algo = "DiscreteSAC"
  /\ last = "update_temp"
  /\ grad.policy # ZeroPolicy
  /\ log_temp # 0

====
